---- MODULE Spec2Model ----
(***************************************************************************)
(* Model of explorer/src/service/chain.rs: the two read-only aggregation   *)
(* handlers statistics() and staking_info().                               *)
(*                                                                         *)
(* The record store is read-only: the tables `transaction` and             *)
(* `delegations` are chosen in Init and never change.  A request is one    *)
(* call of a handler; it advances at the handler's await points (acquire,  *)
(* each sub-query).  A handler ends in one of three ways: it returns       *)
(* Ok(response), it returns Err (the `?` operator), or it panics (an       *)
(* unwrap on Err, an arithmetic overflow under overflow checks).           *)
(***************************************************************************)
EXTENDS Integers, Sequences, FiniteSets, TLC

(***************************************************************************)
(* Bounds of the model.                                                    *)
(***************************************************************************)
MaxRequests == 2    \* concurrent requests (specification Spec)
MaxTxs == 2         \* rows of the transaction table
MaxOuts == 2        \* output public keys of one transaction
MaxHeight == 2      \* heights of the delegations table
MaxU64 == 3         \* stands for u64::MAX = 2^64 - 1, scaled to fit TLC's integers

Requests == 1..MaxRequests
Heights == 1..MaxHeight

Day == 3600 * 24

Addresses == {"fra1", "fra2"}
Validators == {"v1", "v2"}
Delegators == {"A", "B"}
Targets == {"x", "y"}
Amounts == {1, MaxU64}
ReturnRates == {1, 2}
Timestamps == {Day - 1, Day, Day + 1}
Nows == {2 * Day}

SeqsUpTo(S, n) == UNION {[1..k -> S] : k \in 0..n}

\* every enumeration of the finite set S as a sequence without repetition
Orders(S) ==
    {s \in [1..Cardinality(S) -> S] : \A i, j \in DOMAIN s : s[i] = s[j] => i = j}

(***************************************************************************)
(* JSON values of the stored payloads.                                     *)
(***************************************************************************)
JString(s) == [t |-> "String", s |-> s]
JNull == [t |-> "Null", s |-> ""]
PubKeyValues == {JString(a) : a \in Addresses} \cup {JNull}

\* records whose output public keys are all address strings
AddressTxs == [outs : SeqsUpTo({JString(a) : a \in Addresses}, MaxOuts), timestamp : {Day}]

\* records whose output public key may be a JSON value that is not a string
MalformedTxs == [outs : SeqsUpTo(PubKeyValues, 1), timestamp : {Day}]

\* records without outputs, before, at and after the trailing-24h cutoff
TimedTxs == [outs : {<<>>}, timestamp : Timestamps]

(***************************************************************************)
(* sqlx errors a query can end with.                                       *)
(***************************************************************************)
StoreErrors == {"RowNotFound", "Io"}

VARIABLES
    txs,              \* table `transaction`: a sequence of TxRecords
    delegations,      \* table `delegations`: height -> info payload
    conn,             \* the requests that hold a store connection
    pc,               \* per request: where the handler is
    handler,          \* per request: "none", "statistics" or "staking_info"
    height,           \* per request: the height argument (<<>> is None)
    issued,           \* per request: the sub-queries issued, with their outcome
    res_data,         \* per request: local res_data of statistics()
    total_txs,        \* per request: local total_txs of statistics()
    active_addresses, \* per request: local active_addresses of statistics()
    resp,             \* per request: the response body returned
    line              \* per request: source line of an Err return or a panic

vars == <<txs, delegations, conn, pc, handler, height, issued, res_data,
          total_txs, active_addresses, resp, line>>

store == <<txs, delegations>>
locals == <<res_data, total_txs, active_addresses>>

Terminal == {"Ok", "Err", "Panic"}
Callable == {"idle"} \cup Terminal

NoRes == [code |-> 0, message |-> "", data |-> <<>>]

\* StatisticsData { active_addresses: 0, total_txs: 0, daily_txs: 0 }
ZeroStatisticsData == [active_addresses |-> 0, total_txs |-> 0, daily_txs |-> 0]

(***************************************************************************)
(* The connection is a local of the handler: it is dropped, and so         *)
(* returned to the pool, when the handler's scope ends, whichever way.     *)
(***************************************************************************)
DropLeak(c, r) == c

Drop(c, r) == c \ {r}

(***************************************************************************)
(* if let Err(ref err) = res { match err { RowNotFound => {} _ => return } *)
(***************************************************************************)
IsFatalOnlyUnknown(err) == err \notin {"RowNotFound", "Io"}

IsFatal(err) == err # "RowNotFound"

FatalMessageSame(q) == "internal error, total txs."

FatalMessage(q) ==
    CASE q = "total_txs" -> "internal error, total txs."
      [] q = "total_address" -> "internal error, total addresses."
      [] q = "daily_txs" -> "internal error, daily txs."

\* the data of a code=50001 response: `data: Some(res_data)`
FatalDataPartial(rd, tt, aa) == <<[rd EXCEPT !.total_txs = tt, !.active_addresses = aa]>>

FatalData(rd, tt, aa) == <<rd>>

FatalRes(q, rd, tt, aa) ==
    [code |-> 50001, message |-> FatalMessage(q), data |-> FatalData(rd, tt, aa)]

Log(r, q, outcome) ==
    issued' = [issued EXCEPT ![r] = Append(@, [query |-> q, outcome |-> outcome])]

\* the handler returns Ok(response); the connection is dropped
Return(r, body) ==
    /\ pc' = [pc EXCEPT ![r] = "Ok"]
    /\ resp' = [resp EXCEPT ![r] = body]
    /\ conn' = Drop(conn, r)
    /\ UNCHANGED line

\* the handler panics at source line l; unwinding drops the connection
Panic(r, l) ==
    /\ pc' = [pc EXCEPT ![r] = "Panic"]
    /\ line' = [line EXCEPT ![r] = l]
    /\ conn' = Drop(conn, r)
    /\ UNCHANGED resp

(***************************************************************************)
(* statistics(): line 55, acquire a connection.                            *)
(***************************************************************************)
Enter(r, h, hgt, first) ==
    /\ pc[r] \in Callable
    /\ handler' = [handler EXCEPT ![r] = h]
    /\ height' = [height EXCEPT ![r] = hgt]
    /\ issued' = [issued EXCEPT ![r] = <<>>]
    /\ resp' = [resp EXCEPT ![r] = NoRes]
    /\ res_data' = [res_data EXCEPT ![r] = ZeroStatisticsData]
    /\ total_txs' = [total_txs EXCEPT ![r] = 0]
    /\ active_addresses' = [active_addresses EXCEPT ![r] = 0]
    /\ pc' = [pc EXCEPT ![r] = first]
    /\ UNCHANGED store

StatisticsAcquire(r) ==
    /\ Enter(r, "statistics", <<>>, "total_txs")
    /\ conn' = conn \cup {r}
    /\ line' = [line EXCEPT ![r] = 0]

\* acquire().await? fails: the handler returns Err, no connection was taken
StatisticsAcquireErr(r) ==
    /\ Enter(r, "statistics", <<>>, "Err")
    /\ line' = [line EXCEPT ![r] = 55]
    /\ UNCHANGED conn

(***************************************************************************)
(* statistics(): lines 63-78, total txs.                                   *)
(***************************************************************************)
\* SELECT COUNT(*) as cnt FROM transaction
CountAll(t) == Len(t)

TotalTxsOk(r) ==
    /\ pc[r] = "total_txs"
    /\ Log(r, "total_txs", "Ok")
    /\ total_txs' = [total_txs EXCEPT ![r] = CountAll(txs)]
    /\ pc' = [pc EXCEPT ![r] = "total_address"]
    /\ UNCHANGED <<store, conn, handler, height, res_data, active_addresses, resp, line>>

TotalTxsFatal(r) ==
    /\ pc[r] = "total_txs"
    /\ \E err \in StoreErrors :
        /\ IsFatal(err)
        /\ Log(r, "total_txs", err)
    /\ Return(r, FatalRes("total_txs", res_data[r], total_txs[r], active_addresses[r]))
    /\ UNCHANGED <<store, handler, height, locals>>

\* the error is not fatal: total_txs_res.unwrap() on line 78 panics
TotalTxsUnwrapErr(r) ==
    /\ pc[r] = "total_txs"
    /\ \E err \in StoreErrors :
        /\ ~IsFatal(err)
        /\ Log(r, "total_txs", err)
    /\ Panic(r, 78)
    /\ UNCHANGED <<store, handler, height, locals>>

(***************************************************************************)
(* statistics(): lines 80-102, total address.                              *)
(***************************************************************************)
RECURSIVE Flatten(_, _, _)
Flatten(t, p, i) ==
    IF i > Len(p) THEN <<>> ELSE t[p[i]].outs \o Flatten(t, p, i + 1)

\* SELECT jsonb_path_query(value, '$...outputs[*].public_key') as addr FROM
\* transaction: one row per output public key; the rows of one record are
\* contiguous and in document order, the records come in the scan order p
AddrRows(t, p) == Flatten(t, p, 1)

\* serde_json::from_value::<String>(value)
IsStringValue(v) == v.t = "String"

\* the for loop of lines 97-101: ok is FALSE when an unwrap panicked
RECURSIVE ScanRows(_, _, _)
ScanRows(rows, i, hs) ==
    IF i > Len(rows) THEN [ok |-> TRUE, hs |-> hs]
    ELSE IF ~IsStringValue(rows[i]) THEN [ok |-> FALSE, hs |-> hs]
    ELSE ScanRows(rows, i + 1, hs \cup {rows[i].s})

ActiveAddressCountRows(rows, hs) == Len(rows)

\* let active_addresses = hs.len() as i64
ActiveAddressCount(rows, hs) == Cardinality(hs)

TotalAddressOk(r) ==
    /\ pc[r] = "total_address"
    /\ \E p \in Orders(DOMAIN txs) :
        LET rows == AddrRows(txs, p)
            scan == ScanRows(rows, 1, {})
        IN  /\ scan.ok
            /\ active_addresses' =
                   [active_addresses EXCEPT ![r] = ActiveAddressCount(rows, scan.hs)]
    /\ Log(r, "total_address", "Ok")
    /\ pc' = [pc EXCEPT ![r] = "daily_txs"]
    /\ UNCHANGED <<store, conn, handler, height, res_data, total_txs, resp, line>>

\* serde_json::from_value(value).unwrap() on line 99 panics
TotalAddressDecodePanic(r) ==
    /\ pc[r] = "total_address"
    /\ \E p \in Orders(DOMAIN txs) : ~ScanRows(AddrRows(txs, p), 1, {}).ok
    /\ Log(r, "total_address", "Ok")
    /\ Panic(r, 99)
    /\ UNCHANGED <<store, handler, height, locals>>

TotalAddressFatal(r) ==
    /\ pc[r] = "total_address"
    /\ \E err \in StoreErrors :
        /\ IsFatal(err)
        /\ Log(r, "total_address", err)
    /\ Return(r, FatalRes("total_address", res_data[r], total_txs[r], active_addresses[r]))
    /\ UNCHANGED <<store, handler, height, locals>>

\* the error is not fatal: active_addresses_res.unwrap() on line 95 panics
TotalAddressUnwrapErr(r) ==
    /\ pc[r] = "total_address"
    /\ \E err \in StoreErrors :
        /\ ~IsFatal(err)
        /\ Log(r, "total_address", err)
    /\ Panic(r, 95)
    /\ UNCHANGED <<store, handler, height, locals>>

(***************************************************************************)
(* statistics(): lines 104-132, daily txs and the code=200 response.       *)
(***************************************************************************)
\* SELECT COUNT(*) as cnt FROM transaction where timestamp>=$1
CountSince(t, cutoff) == Cardinality({i \in DOMAIN t : t[i].timestamp >= cutoff})

\* lines 124-126
FillResData(rd, daily, total, active) ==
    [rd EXCEPT !.daily_txs = daily, !.total_txs = total, !.active_addresses = active]

DailyTxsOk(r) ==
    /\ pc[r] = "daily_txs"
    /\ Log(r, "daily_txs", "Ok")
    /\ \E now \in Nows :
        LET daily_txs == CountSince(txs, now - Day)
            filled == FillResData(res_data[r], daily_txs, total_txs[r], active_addresses[r])
        IN  /\ res_data' = [res_data EXCEPT ![r] = filled]
            /\ Return(r, [code |-> 200, message |-> "", data |-> <<filled>>])
    /\ UNCHANGED <<store, handler, height, total_txs, active_addresses>>

DailyTxsFatal(r) ==
    /\ pc[r] = "daily_txs"
    /\ \E err \in StoreErrors :
        /\ IsFatal(err)
        /\ Log(r, "daily_txs", err)
    /\ Return(r, FatalRes("daily_txs", res_data[r], total_txs[r], active_addresses[r]))
    /\ UNCHANGED <<store, handler, height, locals>>

\* the error is not fatal: daily_txs_res.unwrap() on line 122 panics
DailyTxsUnwrapErr(r) ==
    /\ pc[r] = "daily_txs"
    /\ \E err \in StoreErrors :
        /\ ~IsFatal(err)
        /\ Log(r, "daily_txs", err)
    /\ Panic(r, 122)
    /\ UNCHANGED <<store, handler, height, locals>>

StatisticsStep(r) ==
    \/ StatisticsAcquire(r)
    \/ StatisticsAcquireErr(r)
    \/ TotalTxsOk(r)
    \/ TotalTxsFatal(r)
    \/ TotalTxsUnwrapErr(r)
    \/ TotalAddressOk(r)
    \/ TotalAddressDecodePanic(r)
    \/ TotalAddressFatal(r)
    \/ TotalAddressUnwrapErr(r)
    \/ DailyTxsOk(r)
    \/ DailyTxsFatal(r)
    \/ DailyTxsUnwrapErr(r)

InitRequests ==
    /\ conn = {}
    /\ pc = [r \in Requests |-> "idle"]
    /\ handler = [r \in Requests |-> "none"]
    /\ height = [r \in Requests |-> <<>>]
    /\ issued = [r \in Requests |-> <<>>]
    /\ res_data = [r \in Requests |-> ZeroStatisticsData]
    /\ total_txs = [r \in Requests |-> 0]
    /\ active_addresses = [r \in Requests |-> 0]
    /\ resp = [r \in Requests |-> NoRes]
    /\ line = [r \in Requests |-> 0]

(***************************************************************************)
(* SpecStatistics: one request at a time of statistics() over every        *)
(* transaction table within the bounds.                                    *)
(***************************************************************************)
InitStatistics ==
    /\ txs \in SeqsUpTo(AddressTxs, MaxTxs) \cup SeqsUpTo(MalformedTxs, MaxTxs)
               \cup SeqsUpTo(TimedTxs, MaxTxs)
    /\ delegations = <<>>
    /\ InitRequests

NextStatistics == StatisticsStep(1)

SpecStatistics == InitStatistics /\ [][NextStatistics]_vars
(***************************************************************************)
(* The delegations table: one info payload per height.  A payload either   *)
(* has the shape of module::schema::DelegationInfo or some other shape.    *)
(***************************************************************************)
MapsOver(K, V) == UNION {[D -> V] : D \in SUBSET K}

DelegationRecords(tg) == [rwd_amount : Amounts, delegations : MapsOver(tg, Amounts)]

DelegationInfos(vs, ds, tg) ==
    {[shape |-> "DelegationInfo",
      validator_addr_map |-> vm,
      global_delegation_records_map |-> gm,
      return_rate |-> [value |-> rv]] :
        vm \in MapsOver(vs, {"fra1"}),
        gm \in MapsOver(ds, DelegationRecords(tg)),
        rv \in ReturnRates}

OtherShape ==
    [shape |-> "Other",
     validator_addr_map |-> <<>>,
     global_delegation_records_map |-> <<>>,
     return_rate |-> [value |-> 0]]

\* several heights, each with a small payload
HeightStores == MapsOver(Heights, DelegationInfos({}, {"A"}, {}) \cup {OtherShape})

\* one height with a payload of several delegators and targets
RecordStores == {[h \in {1} |-> i] : i \in DelegationInfos({}, Delegators, Targets)}

\* one height with a payload of several validators
ValidatorStores == {[h \in {1} |-> i] : i \in DelegationInfos(Validators, {}, {})}

(***************************************************************************)
(* staking_info(): lines 136-143, acquire and resolve the snapshot.        *)
(***************************************************************************)
HeightArgs == {<<>>} \cup {<<h>> : h \in Heights}

StakingAcquire(r) ==
    /\ \E hgt \in HeightArgs : Enter(r, "staking_info", hgt, "delegation")
    /\ conn' = conn \cup {r}
    /\ line' = [line EXCEPT ![r] = 0]

\* acquire().await? fails: the handler returns Err, no connection was taken
StakingAcquireErr(r) ==
    /\ \E hgt \in HeightArgs : Enter(r, "staking_info", hgt, "Err")
    /\ line' = [line EXCEPT ![r] = 136]
    /\ UNCHANGED conn

ResolveLatest(d, hgt) == {h \in DOMAIN d : \A k \in DOMAIN d : k <= h}

\* the heights of the rows the query of lines 138-142 selects (none or one):
\* WHERE height={}  or  ORDER BY height DESC LIMIT 1
ResolveSnapshot(d, hgt) ==
    IF hgt # <<>>
    THEN {h \in DOMAIN d : h = hgt[1]}
    ELSE {h \in DOMAIN d : \A k \in DOMAIN d : k <= h}

\* total_stake as f64 / 21_420_000_000_000_000.0: the quotient is kept as
\* numerator and denominator, the f64 rounding is not modelled
StakeRatio(total_stake_) == [num |-> total_stake_, den |-> "21_420_000_000_000_000.0"]

\* StakingData::default(); the f64 0.0 is the quotient 0 / 21_420_000_000_000_000.0
DefaultStakingData ==
    [block_reward |-> 0, stake_ratio |-> StakeRatio(0), apy |-> 0,
     active_validators |-> <<>>]

NotFoundResError == [code |-> 50001, message |-> "internal error.", data |-> <<>>]

\* lines 147-151
NotFoundRes == [code |-> 200, message |-> "", data |-> <<DefaultStakingData>>]

\* lines 152-156
StakingFatalRes == [code |-> 50001, message |-> "internal error.", data |-> <<>>]

DelegationNotFound(r) ==
    /\ pc[r] = "delegation"
    /\ ResolveSnapshot(delegations, height[r]) = {}
    /\ Log(r, "delegation", "RowNotFound")
    /\ Return(r, NotFoundRes)
    /\ UNCHANGED <<store, handler, height, locals>>

DelegationFatal(r) ==
    /\ pc[r] = "delegation"
    /\ \E err \in StoreErrors :
        /\ IsFatal(err)
        /\ Log(r, "delegation", err)
    /\ Return(r, StakingFatalRes)
    /\ UNCHANGED <<store, handler, height, locals>>

(***************************************************************************)
(* staking_info(): lines 159-187, decode and reduce the snapshot.          *)
(***************************************************************************)
\* serde_json::from_value::<DelegationInfo>(info_value)
IsDelegationInfo(v) == v.shape = "DelegationInfo"

\* a += b on u64: with overflow checks an overflow panics, without it wraps
Overflows(a, b) == a + b > MaxU64
WrappingAdd(a, b) == (a + b) % (MaxU64 + 1)

\* the inner loop of lines 170-172 over dl.delegations in the order tseq
RECURSIVE SumDelegations(_, _, _, _, _)
SumDelegations(dm, tseq, i, st, checks) ==
    IF i > Len(tseq) \/ st.line # 0 THEN st
    ELSE IF checks /\ Overflows(st.total_stake, dm[tseq[i]])
         THEN [st EXCEPT !.line = 171]
         ELSE SumDelegations(dm, tseq, i + 1,
                  [st EXCEPT !.total_stake = WrappingAdd(@, dm[tseq[i]])], checks)

\* the loop of lines 168-173 over global_delegation_records_map in the
\* order dseq; st.line is the line of the overflow panic, 0 when none
RECURSIVE SumRecords(_, _, _, _, _, _)
SumRecords(gm, dseq, tord, i, st, checks) ==
    IF i > Len(dseq) \/ st.line # 0 THEN st
    ELSE IF checks /\ Overflows(st.reward, gm[dseq[i]].rwd_amount)
         THEN [st EXCEPT !.line = 169]
         ELSE SumRecords(gm, dseq, tord, i + 1,
                  SumDelegations(gm[dseq[i]].delegations, tord[dseq[i]], 1,
                      [st EXCEPT !.reward = WrappingAdd(@, gm[dseq[i]].rwd_amount)],
                      checks),
                  checks)

\* the iteration orders of the inner maps: one order per delegation record
TargetOrders(gm) ==
    {f \in [DOMAIN gm -> UNION {Orders(T) : T \in SUBSET Targets}] :
        \A d \in DOMAIN gm : f[d] \in Orders(DOMAIN gm[d].delegations)}

\* lines 175-180
StakingDataOf(info, vseq, st) ==
    [block_reward |-> st.reward,
     stake_ratio |-> StakeRatio(st.total_stake),
     apy |-> info.return_rate.value,
     active_validators |-> vseq]

\* info_value is not a DelegationInfo: the unwrap on line 160 panics
DelegationDecodePanic(r) ==
    /\ pc[r] = "delegation"
    /\ \E h \in ResolveSnapshot(delegations, height[r]) :
        ~IsDelegationInfo(delegations[h])
    /\ Log(r, "delegation", "Ok")
    /\ Panic(r, 160)
    /\ UNCHANGED <<store, handler, height, locals>>

Reduced(info, dseq, tord, checks) ==
    SumRecords(info.global_delegation_records_map, dseq, tord, 1,
               [line |-> 0, reward |-> 0, total_stake |-> 0], checks)

DelegationOk(r) ==
    /\ pc[r] = "delegation"
    /\ \E h \in ResolveSnapshot(delegations, height[r]) :
        LET info == delegations[h] IN
        /\ IsDelegationInfo(info)
        /\ \E vseq \in Orders(DOMAIN info.validator_addr_map),
              dseq \in Orders(DOMAIN info.global_delegation_records_map),
              tord \in TargetOrders(info.global_delegation_records_map),
              checks \in BOOLEAN :
            LET st == Reduced(info, dseq, tord, checks) IN
            /\ st.line = 0
            /\ Return(r, [code |-> 200, message |-> "",
                          data |-> <<StakingDataOf(info, vseq, st)>>])
    /\ Log(r, "delegation", "Ok")
    /\ UNCHANGED <<store, handler, height, locals>>

\* built with overflow checks: a sum past u64::MAX panics on line 169 or 171
DelegationOverflowPanic(r) ==
    /\ pc[r] = "delegation"
    /\ \E h \in ResolveSnapshot(delegations, height[r]) :
        LET info == delegations[h] IN
        /\ IsDelegationInfo(info)
        /\ \E dseq \in Orders(DOMAIN info.global_delegation_records_map),
              tord \in TargetOrders(info.global_delegation_records_map) :
            LET st == Reduced(info, dseq, tord, TRUE) IN
            /\ st.line # 0
            /\ Panic(r, st.line)
    /\ Log(r, "delegation", "Ok")
    /\ UNCHANGED <<store, handler, height, locals>>

StakingStep(r) ==
    \/ StakingAcquire(r)
    \/ StakingAcquireErr(r)
    \/ DelegationNotFound(r)
    \/ DelegationFatal(r)
    \/ DelegationDecodePanic(r)
    \/ DelegationOk(r)
    \/ DelegationOverflowPanic(r)

(***************************************************************************)
(* SpecStaking: one request at a time of staking_info() over every         *)
(* delegations table within the bounds.                                    *)
(***************************************************************************)
InitStaking ==
    /\ txs = <<>>
    /\ delegations \in HeightStores \cup RecordStores \cup ValidatorStores
    /\ InitRequests

NextStaking == StakingStep(1)

SpecStaking == InitStaking /\ [][NextStaking]_vars
(***************************************************************************)
(* Spec: concurrent requests of both handlers over small tables.           *)
(***************************************************************************)
SmallTxStores ==
    SeqsUpTo([outs : [1..1 -> {JString("fra1"), JNull}], timestamp : {Day}], 1)

SmallDelegationStores ==
    MapsOver({1}, {OtherShape} \cup
        {i \in DelegationInfos({}, Delegators, {}) :
            /\ i.return_rate.value = 1
            /\ DOMAIN i.global_delegation_records_map \in {{}, Delegators}
            /\ \A d \in DOMAIN i.global_delegation_records_map :
                   i.global_delegation_records_map[d].rwd_amount = MaxU64})

Init ==
    /\ txs \in SmallTxStores
    /\ delegations \in SmallDelegationStores
    /\ InitRequests

Next == \E r \in Requests : StatisticsStep(r) \/ StakingStep(r)

Spec == Init /\ [][Next]_vars
(***************************************************************************)
(* Properties.                                                             *)
(***************************************************************************)
FatalErrors == StoreErrors \ {"RowNotFound"}

Outcomes(r) == {issued[r][i].outcome : i \in DOMAIN issued[r]}

HadFatal(r) == Outcomes(r) \cap FatalErrors # {}

AllOk(r, n) == Len(issued[r]) = n /\ Outcomes(r) = {"Ok"}

StatQueries == <<"total_txs", "total_address", "daily_txs">>

\* C1: in statistics(), a sub-query that ended with a Fatal outcome (a store
\* error other than RowNotFound) makes the response of the whole request
\* code=50001; no code=200 response has a Fatal sub-query.
C1_FatalGives50001 ==
    \A r \in Requests :
        handler[r] = "statistics" /\ HadFatal(r)
            => pc[r] = "Ok" /\ resp[r].code = 50001

\* a request whose third sub-query was Fatal, answered with code=50001
C1_Witness ==
    \E r \in Requests :
        /\ handler[r] = "statistics"
        /\ Len(issued[r]) = 3
        /\ issued[r][3].outcome \in FatalErrors
        /\ resp[r].code = 50001

\* C2: in statistics(), a sub-query that ended Empty (RowNotFound) counts as
\* 0, the aggregation goes on and the request completes with code=200; it
\* never leads to an error, an abort or code=50001.
C2_EmptyContinues ==
    \A r \in Requests :
        /\ handler[r] = "statistics"
        /\ pc[r] \in Terminal
        /\ "RowNotFound" \in Outcomes(r)
        /\ ~HadFatal(r)
        => pc[r] = "Ok" /\ resp[r].code = 200

NoSnapshot(r) ==
    IF height[r] = <<>>
    THEN DOMAIN delegations = {}
    ELSE height[r][1] \notin DOMAIN delegations

\* C3: in staking_info(), when the snapshot query matches no row, the
\* response is code=200 with data present and zero-valued; never code=50001
\* and never null data.
C3_NoSnapshotIsZero200 ==
    \A r \in Requests :
        /\ handler[r] = "staking_info"
        /\ pc[r] \in Terminal
        /\ issued[r] # <<>>
        /\ ~HadFatal(r)
        /\ NoSnapshot(r)
        => /\ pc[r] = "Ok"
           /\ resp[r].code = 200
           /\ Len(resp[r].data) = 1
           /\ resp[r].data[1].block_reward = 0
           /\ resp[r].data[1].stake_ratio.num = 0
           /\ resp[r].data[1].apy = 0
           /\ resp[r].data[1].active_validators = <<>>

\* a height was requested that has no snapshot while other heights have one
C3_Witness ==
    \E r \in Requests :
        /\ handler[r] = "staking_info"
        /\ pc[r] = "Ok"
        /\ height[r] # <<>>
        /\ NoSnapshot(r)
        /\ DOMAIN delegations # {}
        /\ resp[r].code = 200

HasMalformedAddr == \E i \in DOMAIN txs : \E j \in DOMAIN txs[i].outs : txs[i].outs[j].t # "String"

DecodeFailed(r) ==
    \/ /\ handler[r] = "statistics"
       /\ Len(issued[r]) >= 2
       /\ issued[r][2].outcome = "Ok"
       /\ HasMalformedAddr
    \/ /\ handler[r] = "staking_info"
       /\ AllOk(r, 1)
       /\ \E h \in ResolveSnapshot(delegations, height[r]) : delegations[h].shape # "DelegationInfo"

\* C4: a decode failure of a stored payload is treated like a store failure:
\* the request ends with a code=50001 response, the handler does not
\* terminate abnormally.
C4_DecodeFailureIs50001 ==
    \A r \in Requests :
        pc[r] \in Terminal /\ DecodeFailed(r)
            => pc[r] = "Ok" /\ resp[r].code = 50001

\* C5: the connection acquired at the start of a handler is released on
\* every exit path: a request that is not running holds no connection.
C5_ConnReleased == \A r \in Requests : r \in conn => pc[r] \notin Callable

\* one request ended with code=200, another with code=50001, none holds a
\* connection
C5_Witness ==
    \E r1, r2 \in Requests :
        /\ pc[r1] = "Ok" /\ resp[r1].code = 200
        /\ pc[r2] = "Ok" /\ resp[r2].code = 50001
        /\ conn = {}

RECURSIVE SumOver(_, _)
SumOver(f, D) ==
    IF D = {} THEN 0
    ELSE LET k == CHOOSE k \in D : TRUE IN f[k] + SumOver(f, D \ {k})

RewardSum(info) ==
    LET gm == info.global_delegation_records_map
    IN  SumOver([d \in DOMAIN gm |-> gm[d].rwd_amount], DOMAIN gm)

StakeSum(info) ==
    LET gm == info.global_delegation_records_map
    IN  SumOver([d \in DOMAIN gm |->
                    SumOver(gm[d].delegations, DOMAIN gm[d].delegations)], DOMAIN gm)

\* C6: for every snapshot with u64 amounts, staking_info() returns
\* block_reward = the sum of rwd_amount over all records and total_stake =
\* the sum of all staked amounts, whatever the iteration order.
C6_SumsExact ==
    \A r \in Requests :
        /\ handler[r] = "staking_info"
        /\ pc[r] \in Terminal
        /\ AllOk(r, 1)
        => \A h \in ResolveSnapshot(delegations, height[r]) :
               IsDelegationInfo(delegations[h]) =>
                   /\ pc[r] = "Ok"
                   /\ resp[r].data[1].block_reward = RewardSum(delegations[h])
                   /\ resp[r].data[1].stake_ratio.num = StakeSum(delegations[h])

AddressStrings ==
    {txs[i].outs[j].s : <<i, j>> \in
        {ij \in (DOMAIN txs) \X (1..MaxOuts) :
            ij[2] \in DOMAIN txs[ij[1]].outs /\ txs[ij[1]].outs[ij[2]].t = "String"}}

RECURSIVE RowCount(_)
RowCount(i) == IF i > Len(txs) THEN 0 ELSE Len(txs[i].outs) + RowCount(i + 1)

\* C7: when all sub-queries succeed, active_addresses is non-negative and is
\* the number of distinct address strings among all output public keys of
\* all records, each counted once, whatever the order of the rows.
C7_DistinctAddresses ==
    \A r \in Requests :
        handler[r] = "statistics" /\ pc[r] \in Terminal /\ AllOk(r, 3)
            => /\ ~HasMalformedAddr => pc[r] = "Ok" /\ resp[r].code = 200
               /\ pc[r] = "Ok" =>
                    /\ resp[r].data[1].active_addresses >= 0
                    /\ resp[r].data[1].active_addresses = Cardinality(AddressStrings)

\* a code=200 response over a table in which an address occurs more than once
C7_Witness ==
    \E r \in Requests :
        /\ handler[r] = "statistics"
        /\ pc[r] = "Ok"
        /\ resp[r].code = 200
        /\ Len(txs) = 2
        /\ Cardinality(AddressStrings) >= 1
        /\ RowCount(1) > Cardinality(AddressStrings)

Latest == CHOOSE h \in DOMAIN delegations : \A k \in DOMAIN delegations : k <= h

Requested(r) == IF height[r] # <<>> THEN height[r][1] ELSE Latest

\* C8: staking_info() with a height that has a snapshot computes its result
\* from the snapshot at exactly that height, also when greater heights
\* exist; without a height, from the snapshot of the maximum height.
C8_SnapshotAtHeight ==
    \A r \in Requests :
        /\ handler[r] = "staking_info"
        /\ pc[r] = "Ok"
        /\ AllOk(r, 1)
        => /\ Requested(r) \in DOMAIN delegations
           /\ resp[r].code = 200
           /\ resp[r].data[1].apy = delegations[Requested(r)].return_rate.value
           /\ resp[r].data[1].block_reward =
                  RewardSum(delegations[Requested(r)]) % (MaxU64 + 1)
           /\ Len(resp[r].data[1].active_validators) =
                  Cardinality(DOMAIN delegations[Requested(r)].validator_addr_map)

\* a height below the latest was requested and the two snapshots differ
C8_Witness ==
    \E r \in Requests :
        /\ handler[r] = "staking_info"
        /\ pc[r] = "Ok"
        /\ AllOk(r, 1)
        /\ height[r] # <<>>
        /\ height[r][1] < Latest
        /\ IsDelegationInfo(delegations[Latest])
        /\ delegations[Latest].return_rate.value # resp[r].data[1].apy

\* C9: every code=50001 response of statistics() carries data whose three
\* fields are 0, whichever sub-query failed; computed values appear only in
\* a code=200 response, all three together.
C9_FatalDataIsZero ==
    \A r \in Requests :
        handler[r] = "statistics" /\ pc[r] = "Ok"
            => /\ resp[r].code \in {200, 50001}
               /\ Len(resp[r].data) = 1
               /\ resp[r].code = 50001 =>
                    /\ resp[r].data[1].active_addresses = 0
                    /\ resp[r].data[1].total_txs = 0
                    /\ resp[r].data[1].daily_txs = 0
               /\ resp[r].code = 200 =>
                    /\ resp[r].data[1].active_addresses = active_addresses[r]
                    /\ resp[r].data[1].total_txs = total_txs[r]
                    /\ resp[r].data[1].total_txs = Len(txs)

\* the third sub-query failed after the first two returned non-zero values
C9_Witness ==
    \E r \in Requests :
        /\ handler[r] = "statistics"
        /\ pc[r] = "Ok"
        /\ resp[r].code = 50001
        /\ Len(issued[r]) = 3
        /\ total_txs[r] > 0
        /\ active_addresses[r] > 0

ClaimedMessage(q) ==
    CASE q = "total_txs" -> "internal error, total txs."
      [] q = "total_address" -> "internal error, total addresses."
      [] q = "daily_txs" -> "internal error, daily txs."

\* C10: statistics() issues total count, address scan, trailing-24h count in
\* this order, one after the other; the first Fatal outcome is the last
\* sub-query issued and the response names exactly that sub-query.
C10_SequentialFirstFatal ==
    \A r \in Requests :
        handler[r] = "statistics" =>
            /\ Len(issued[r]) <= 3
            /\ \A i \in DOMAIN issued[r] :
                /\ issued[r][i].query = StatQueries[i]
                /\ issued[r][i].outcome \in FatalErrors =>
                      /\ i = Len(issued[r])
                      /\ pc[r] = "Ok"
                      /\ resp[r].code = 50001
                      /\ resp[r].message = ClaimedMessage(StatQueries[i])
            /\ (pc[r] = "Ok" /\ resp[r].code = 50001) => HadFatal(r)
            /\ (pc[r] = "Ok" /\ resp[r].code = 200) => AllOk(r, 3)

\* the address scan failed: the request stopped there and says so
C10_Witness ==
    \E r \in Requests :
        /\ handler[r] = "statistics"
        /\ pc[r] = "Ok"
        /\ Len(issued[r]) = 2
        /\ issued[r][2].outcome \in FatalErrors
        /\ resp[r].message = "internal error, total addresses."
====
